---- MODULE Spec2Model ----
(***************************************************************************)
(* DecLeToR: the query-grouped dataset splitter (common.py), the           *)
(* UserActivity object model with its serialization hooks and the          *)
(* shuffle-isolation decorator (common.py), and the chronological          *)
(* evaluation engine (eval_context.py).                                    *)
(***************************************************************************)
EXTENDS Integers, Sequences, FiniteSets, TLC

VARIABLES
    \* ---- split_dataset_by_qids -------------------------------------------
    records,        \* the input list of ClickThroughRecord
    train_ratio,    \* numerator of train_ratio over RatioDen
    val_ratio,      \* numerator of val_ratio over RatioDen
    split_out,      \* what the call produced: not called / KeyError / the triple
    \* ---- chronological_eval ----------------------------------------------
    n_activities,   \* len(user_activities); the log's items are 0..n-1
    rank_name,      \* rank_func.__name__
    NUM_CORES,      \* cpu_count()
    epc,            \* "start", "parallel" (inside Parallel), "returned"
    total_range,    \* the scheduled split indices, in submission order
    dispatched,     \* number of task batches handed to the worker pool
    results,        \* Parallel's result list: one slot per task
    completed,      \* the tasks in the order they completed
    last_call,      \* the arguments of the latest call of rank_func
    context_to_ndcgs, \* the returned dict, as its (key, value) items in order
    \* ---- UserActivity objects and the ranking_func wrapper ----------------
    heap,           \* the UserActivity objects alive, by address 1..Len(heap)
    nlog,           \* heap[1..nlog] are the caller's user_activities
    wpc,            \* "idle", "in_func" (wrapper called func), "returned"
    call,           \* the wrapper call in progress: arg1, arg2, shuffle
    clicklogs,      \* addresses of the list handed to func as clicklogs
    activities,     \* addresses of the list handed to func as activities
    snapshot        \* the caller's objects by value when the wrapper was called

splitVars == <<records, train_ratio, val_ratio, split_out>>

evalVars == <<n_activities, rank_name, NUM_CORES, epc, total_range, dispatched,
              results, completed, last_call, context_to_ndcgs>>

uaVars == <<heap, nlog, wpc, call, clicklogs, activities, snapshot>>

vars == <<splitVars, evalVars, uaVars>>

\* Python's None.
None == [py |-> "None"]

Min(a, b) == IF a <= b THEN a ELSE b
Max(a, b) == IF a >= b THEN a ELSE b

Range(s) == {s[k] : k \in 1..Len(s)}

\* Python's s[a:b] for 0 <= a, 0 <= b (bounds clamp to the length).
Slice(s, a, b) == SubSeq(s, Min(a, Len(s)) + 1, Min(b, Len(s)))

(***************************************************************************)
(* split_dataset_by_qids                                                   *)
(***************************************************************************)
MaxRecords == 4
MaxQid == 3
\* Ratios are k / RatioDen, k \in 0..RatioDen.
RatioDen == 10

Qids == 1..MaxQid

\* A ClickThroughRecord: its qid and its feature vector object (qdr), which
\* the DataFrame carries by reference; distinct records hold distinct vectors.
RecordLists ==
    UNION {{[k \in 1..n |-> [rel |-> 0, qid |-> q[k], qdr |-> k]] :
                q \in [1..n -> Qids]} :
           n \in 0..MaxRecords}

\* ClickThroughRecord.to_dict(): the row the DataFrame gets for a record.
ClickThroughRecord_to_dict(record) ==
    [rel |-> record.rel, qid |-> record.qid, qdr |-> record.qdr]

\* ClickThroughRecord(**record): the record rebuilt from a DataFrame row.
ClickThroughRecord_init(row) ==
    [rel |-> row.rel, qid |-> row.qid, qdr |-> row.qdr]

\* [ClickThroughRecord(**record) for _, record in df.iterrows()].
to_records(df) == [k \in 1..Len(df) |-> ClickThroughRecord_init(df[k])]

\* Variant of unique: numpy.unique, which returns the distinct values sorted.
RECURSIVE unique_sorted(_)
unique_sorted(s) ==
    IF s = <<>> THEN <<>>
    ELSE LET m == CHOOSE x \in Range(s) : \A y \in Range(s) : x <= y
         IN <<m>> \o unique_sorted(SelectSeq(s, LAMBDA x : x # m))

\* Series.unique(): the distinct values in order of first appearance.
RECURSIVE unique(_)
unique(s) ==
    IF s = <<>> THEN <<>>
    ELSE LET init == unique(SubSeq(s, 1, Len(s) - 1))
             last == s[Len(s)]
         IN IF last \in Range(init) THEN init ELSE Append(init, last)

\* int(ratio * n_qids), ratio = num / RatioDen >= 0: truncation is the floor.
split_size(num, n_qids) == (num * n_qids) \div RatioDen

train_qids_of(qids, train_size, val_size) == Slice(qids, 0, train_size)

val_qids_of(qids, train_size, val_size) ==
    Slice(qids, train_size, train_size + val_size)

\* Variant of test_qids_of: the test slice starts one group too late.
test_qids_late(qids, train_size, val_size) ==
    Slice(qids, train_size + val_size + 1, Len(qids))

test_qids_of(qids, train_size, val_size) ==
    Slice(qids, train_size + val_size, Len(qids))

\* records_df[records_df['qid'].isin(qs)], rows kept in input order.
filter_isin(records_df, qs) ==
    SelectSeq(records_df, LAMBDA r : r.qid \in Range(qs))

\* The whole function. An empty list makes a DataFrame without columns, and
\* records_df['qid'] raises KeyError before anything is split.
split_dataset_by_qids(recs, tr, vr) ==
    IF recs = <<>>
    THEN [status |-> "KeyError", train |-> <<>>, val |-> <<>>, test |-> <<>>]
    ELSE LET records_df == [k \in 1..Len(recs) |->
                                   ClickThroughRecord_to_dict(recs[k])]
             qids == unique([k \in 1..Len(records_df) |-> records_df[k].qid])
             n_qids == Len(qids)
             train_size == split_size(tr, n_qids)
             val_size == split_size(vr, n_qids)
         IN [status |-> "ok",
             train |-> to_records(filter_isin(records_df,
                          train_qids_of(qids, train_size, val_size))),
             val |-> to_records(filter_isin(records_df,
                          val_qids_of(qids, train_size, val_size))),
             test |-> to_records(filter_isin(records_df,
                          test_qids_of(qids, train_size, val_size)))]

NotCalled == [status |-> "none", train |-> <<>>, val |-> <<>>, test |-> <<>>]

IdleEval ==
    /\ n_activities = 0
    /\ rank_name = "other"
    /\ NUM_CORES = 1
    /\ epc = "idle"
    /\ total_range = <<>>
    /\ dispatched = 0
    /\ results = <<>>
    /\ completed = <<>>
    /\ last_call = [made |-> FALSE]
    /\ context_to_ndcgs = <<>>

NoCall == [active |-> FALSE]

IdleUA ==
    /\ heap = <<>>
    /\ nlog = 0
    /\ wpc = "idle"
    /\ call = NoCall
    /\ clicklogs = <<>>
    /\ activities = <<>>
    /\ snapshot = <<>>

InitSplit ==
    /\ IdleEval
    /\ IdleUA
    /\ records \in RecordLists
    /\ train_ratio \in 0..RatioDen
    /\ val_ratio \in 0..RatioDen
    /\ split_out = NotCalled

\* A call split_dataset_by_qids(records, train_ratio, val_ratio).
Split ==
    /\ split_out.status = "none"
    /\ split_out' = split_dataset_by_qids(records, train_ratio, val_ratio)
    /\ UNCHANGED <<records, train_ratio, val_ratio>>
    /\ UNCHANGED <<evalVars, uaVars>>

NextSplit == Split

SpecSplit == InitSplit /\ [][NextSplit]_vars

(***************************************************************************)
(* Claims about split_dataset_by_qids                                      *)
(***************************************************************************)
ValidRatios == train_ratio + val_ratio <= RatioDen

QidsOf(recs) == {recs[k].qid : k \in 1..Len(recs)}

\* How many times record r occurs in the list recs.
Occurrences(recs, r) == Cardinality({k \in 1..Len(recs) : recs[k] = r})

FirstSeen(q) ==
    CHOOSE k \in 1..Len(records) :
        /\ records[k].qid = q
        /\ \A j \in 1..(k - 1) : records[j].qid # q

\* 1-based rank of q among the distinct qids in order of first appearance.
SeenRank(q) ==
    Cardinality({p \in QidsOf(records) : FirstSeen(p) <= FirstSeen(q)})

RecordsRanked(lo, hi) ==
    {records[k] : k \in {j \in 1..Len(records) :
                           /\ SeenRank(records[j].qid) > lo
                           /\ SeenRank(records[j].qid) <= hi}}

\* C9: with n distinct qids in first-seen order, train owns the first
\* floor(train_ratio * n), validation the next floor(val_ratio * n), test
\* the rest, and every record goes to the split owning its qid.
C9_SplitByFirstSeenOrder ==
    (split_out.status = "ok" /\ ValidRatios) =>
        LET n == Cardinality(QidsOf(records))
            nt == (train_ratio * n) \div RatioDen
            nv == (val_ratio * n) \div RatioDen
        IN /\ Range(split_out.train) = RecordsRanked(0, nt)
           /\ Range(split_out.val) = RecordsRanked(nt, nt + nv)
           /\ Range(split_out.test) = RecordsRanked(nt + nv, n)

\* The first-seen order differs from the sorted order, a later-seen group
\* holds more records than train's, and all three parts are non-empty.
C9_Witness ==
    /\ split_out.status = "ok"
    /\ ValidRatios
    /\ Len(records) >= 2
    /\ records[1].qid > records[Len(records)].qid
    /\ split_out.train # <<>>
    /\ split_out.val # <<>>
    /\ Len(split_out.test) > Len(split_out.train)

(***************************************************************************)
(* chronological_eval (eval_context.py)                                    *)
(***************************************************************************)
\* The log lengths tried.
MaxLog == 6
\* Upper end of the cpu_count() values tried.
MaxCores == 2
\* TEST_DATA_SIZE is 100 in the source; the sample size is scaled down so
\* that every sample random.sample can draw is enumerated.
TEST_DATA_SIZE == 2
\* batch_size of the Parallel call.
BATCH_SIZE == 4

RankNames == {"ltr_rank", "other"}

\* The dicts {k: mean_ndcg(ranked, k) for k in K_RANGE} a task may produce;
\* the ranking function and the metric are opaque, two distinct values stand
\* for their results.
Ndcgs == {"ndcgs_a", "ndcgs_b"}

\* Python's range(a, b) as a list.
PyRange(a, b) == [k \in 1..Max(b - a, 0) |-> a + k - 1]

\* The while loop of gen_fast_range; int(i * 1.05) is floor(21 i / 20), i >= 0.
RECURSIVE gen_fast_loop(_, _, _)
gen_fast_loop(total, i, end) ==
    IF i < end
    THEN gen_fast_loop(Append(total, i), (i * 21) \div 20 + 1, end)
    ELSE total

gen_fast_range(end) == Append(gen_fast_loop(<<0>>, 1, end), end)

\* NUM_WORKERS of chronological_eval.
num_workers(name, cores) ==
    IF name = "ltr_rank" THEN Min(cores, 4) ELSE Min(cores, 8)

\* total_range of chronological_eval.
schedule(name, n) ==
    IF name = "ltr_rank"
    THEN gen_fast_range(n - TEST_DATA_SIZE)
    ELSE PyRange(0, n - TEST_DATA_SIZE)

\* user_activities[:i]: the items of the slice, as log positions.
context_slice(i, n) ==
    IF i >= 0 THEN PyRange(0, Min(i, n)) ELSE PyRange(0, Max(n + i, 0))

\* random.sample(range(i, n), TEST_DATA_SIZE): every list of TEST_DATA_SIZE
\* pairwise distinct members of the population; none when the population is
\* smaller than the sample (ValueError).
sample_outcomes(i, n) ==
    {smp \in [1..TEST_DATA_SIZE -> {p \in i..(n - 1) : TRUE}] :
        \A a, b \in 1..TEST_DATA_SIZE : a # b => smp[a] # smp[b]}

\* user_activities[idx] for every idx: a negative idx counts from the end;
\* an idx outside -n..n-1 raises IndexError.
index_ok(idx, n) == idx >= -n /\ idx < n

item_at(idx, n) == IF idx >= 0 THEN idx ELSE n + idx

Pending == [kind |-> "pending"]
NoneResult == [kind |-> "None"]

\* The batches of BATCH_SIZE consecutive tasks joblib forms.
batch_of(t) == (t - 1) \div BATCH_SIZE + 1

n_batches(ntasks) == (ntasks + BATCH_SIZE - 1) \div BATCH_SIZE

batch_tasks(b, ntasks) == {t \in 1..ntasks : batch_of(t) = b}

\* Batches handed to a worker and not yet finished.
running_batches ==
    {b \in 1..dispatched :
        \E t \in batch_tasks(b, Len(total_range)) : results[t] = Pending}

\* Variant of sort_by_index: the sort key negated (descending order).
RECURSIVE sort_descending(_)
sort_descending(rs) ==
    IF rs = <<>> THEN <<>>
    ELSE LET rest == sort_descending(SubSeq(rs, 1, Len(rs) - 1))
             x == rs[Len(rs)]
             before == SelectSeq(rest, LAMBDA y : y.i >= x.i)
             after == SelectSeq(rest, LAMBDA y : y.i < x.i)
         IN before \o <<x>> \o after

\* results.sort(key=lambda x: x[0]): a stable ascending sort.
RECURSIVE sort_by_index(_)
sort_by_index(rs) ==
    IF rs = <<>> THEN <<>>
    ELSE LET rest == sort_by_index(SubSeq(rs, 1, Len(rs) - 1))
             x == rs[Len(rs)]
             before == SelectSeq(rest, LAMBDA y : y.i <= x.i)
             after == SelectSeq(rest, LAMBDA y : y.i > x.i)
         IN before \o <<x>> \o after

\* {i: ndcgs for i, ndcgs in results}: a later item with a key already there
\* replaces the value and keeps the key's place.
RECURSIVE to_dict(_)
to_dict(rs) ==
    IF rs = <<>> THEN <<>>
    ELSE LET d == to_dict(SubSeq(rs, 1, Len(rs) - 1))
             x == rs[Len(rs)]
         IN IF \E k \in 1..Len(d) : d[k][1] = x.i
            THEN [k \in 1..Len(d) |->
                    IF d[k][1] = x.i THEN <<x.i, x.ndcgs>> ELSE d[k]]
            ELSE Append(d, <<x.i, x.ndcgs>>)

\* Lines 62-65: drop the None results, sort, build the dict.
collect(res) ==
    to_dict(sort_by_index(SelectSeq(res, LAMBDA r : r # NoneResult)))

IdleSplit ==
    /\ records = <<>>
    /\ train_ratio = 0
    /\ val_ratio = 0
    /\ split_out = NotCalled

InitEval ==
    /\ IdleSplit
    /\ IdleUA
    /\ n_activities \in 0..MaxLog
    /\ rank_name \in RankNames
    /\ NUM_CORES \in 1..MaxCores
    /\ epc = "start"
    /\ total_range = <<>>
    /\ dispatched = 0
    /\ results = <<>>
    /\ completed = <<>>
    /\ last_call = [made |-> FALSE]
    /\ context_to_ndcgs = <<>>

\* chronological_eval up to the Parallel call: the schedule is fixed.
Schedule ==
    /\ epc = "start"
    /\ epc' = "parallel"
    /\ total_range' = schedule(rank_name, n_activities)
    /\ results' = [t \in 1..Len(total_range') |-> Pending]
    /\ UNCHANGED <<n_activities, rank_name, NUM_CORES, dispatched, completed,
                   last_call, context_to_ndcgs>>
    /\ UNCHANGED <<splitVars, uaVars>>

\* The pool takes the next batch of tasks when a worker is free.
Dispatch ==
    /\ epc = "parallel"
    /\ dispatched < n_batches(Len(total_range))
    /\ Cardinality(running_batches) < num_workers(rank_name, NUM_CORES)
    /\ dispatched' = dispatched + 1
    /\ UNCHANGED <<n_activities, rank_name, NUM_CORES, epc, total_range,
                   results, completed, last_call, context_to_ndcgs>>
    /\ UNCHANGED <<splitVars, uaVars>>

\* Task t is the next one of a running batch.
Runnable(t) ==
    /\ t \in 1..Len(total_range)
    /\ batch_of(t) \in 1..dispatched
    /\ results[t] = Pending
    /\ \A u \in batch_tasks(batch_of(t), Len(total_range)) :
          u < t => results[u] # Pending

\* process_index(i) fails before rank_func is called: random.sample raises
\* ValueError, or user_activities[idx] raises IndexError.
ProcessIndexSampleFails(t) ==
    /\ epc = "parallel"
    /\ Runnable(t)
    /\ LET i == total_range[t]
           n == n_activities
       IN \/ sample_outcomes(i, n) = {}
          \/ \E smp \in sample_outcomes(i, n) :
                \E a \in 1..TEST_DATA_SIZE : ~index_ok(smp[a], n)
    /\ results' = [results EXCEPT ![t] = NoneResult]
    /\ completed' = Append(completed, t)
    /\ UNCHANGED <<n_activities, rank_name, NUM_CORES, epc, total_range,
                   dispatched, last_call, context_to_ndcgs>>
    /\ UNCHANGED <<splitVars, uaVars>>

\* process_index(i) reaches rank_func(context, test_data); the ranking
\* function or the metric raises (ok = FALSE), or the task returns (i, ndcgs).
ProcessIndexCallsRank(t) ==
    /\ epc = "parallel"
    /\ Runnable(t)
    /\ LET i == total_range[t]
           n == n_activities
       IN \E smp \in sample_outcomes(i, n) :
            /\ \A a \in 1..TEST_DATA_SIZE : index_ok(smp[a], n)
            /\ last_call' = [made |-> TRUE,
                             i |-> i,
                             context |-> context_slice(i, n),
                             test_indices |-> smp,
                             test_data |-> [a \in 1..TEST_DATA_SIZE |->
                                              item_at(smp[a], n)]]
            /\ \/ results' = [results EXCEPT ![t] = NoneResult]
               \/ \E m \in Ndcgs :
                    results' = [results EXCEPT
                                  ![t] = [kind |-> "ok", i |-> i, ndcgs |-> m]]
    /\ completed' = Append(completed, t)
    /\ UNCHANGED <<n_activities, rank_name, NUM_CORES, epc, total_range,
                   dispatched, context_to_ndcgs>>
    /\ UNCHANGED <<splitVars, uaVars>>

\* Parallel returns once every task is done; lines 62-67 build the mapping.
Collect ==
    /\ epc = "parallel"
    /\ \A t \in 1..Len(total_range) : results[t] # Pending
    /\ context_to_ndcgs' = collect(results)
    /\ epc' = "returned"
    /\ UNCHANGED <<n_activities, rank_name, NUM_CORES, total_range, dispatched,
                   results, completed, last_call>>
    /\ UNCHANGED <<splitVars, uaVars>>

NextEval ==
    \/ Schedule
    \/ Dispatch
    \/ \E t \in 1..(MaxLog + 2) : ProcessIndexSampleFails(t)
    \/ \E t \in 1..(MaxLog + 2) : ProcessIndexCallsRank(t)
    \/ Collect

SpecEval == InitEval /\ [][NextEval]_vars

(***************************************************************************)
(* Claims about gen_fast_range and chronological_eval                      *)
(***************************************************************************)
Scheduled == epc \in {"parallel", "returned"}

SeqMax(sq) == CHOOSE x \in Range(sq) : \A y \in Range(sq) : y <= x

\* C2: for a log of length n >= TEST_DATA_SIZE and any ranking function, the
\* largest split index scheduled is exactly n - TEST_DATA_SIZE.
C2_LargestIndexIsLenMinusSample ==
    (Scheduled /\ n_activities >= TEST_DATA_SIZE /\ total_range # <<>>) =>
        SeqMax(total_range) = n_activities - TEST_DATA_SIZE

\* C3: at every call of the ranking function for split index i, the context
\* is the log prefix of length i, and the test sample is TEST_DATA_SIZE
\* pairwise distinct log items, all at or after i, none of them in the
\* context.
C3_ContextIsPrefixTestIsFuture ==
    last_call.made =>
        /\ last_call.context = PyRange(0, last_call.i)
        /\ Len(last_call.test_data) = TEST_DATA_SIZE
        /\ \A a, b \in 1..Len(last_call.test_data) :
              a # b => last_call.test_data[a] # last_call.test_data[b]
        /\ \A a \in 1..Len(last_call.test_data) :
              last_call.test_data[a] >= last_call.i
        /\ Range(last_call.test_data) \cap Range(last_call.context) = {}

Keys(d) == {d[k][1] : k \in 1..Len(d)}

FailedIndices ==
    {total_range[t] : t \in {u \in 1..Len(total_range) : results[u] = NoneResult}}

SucceededIndices ==
    {total_range[t] : t \in {u \in 1..Len(total_range) : results[u].kind = "ok"}}

\* C4: when chronological_eval has returned, the mapping has no entry for a
\* split index whose processing failed and has an entry for every scheduled
\* index whose processing succeeded.
C4_FailedIndexDroppedOthersKept ==
    epc = "returned" =>
        /\ FailedIndices \cap Keys(context_to_ndcgs) = {}
        /\ SucceededIndices \subseteq Keys(context_to_ndcgs)

\* C7: for end >= 0, gen_fast_range(end) starts at 0, is strictly
\* increasing, every element after the first and before the last is
\* floor(previous * 1.05) + 1, and end is the last element and occurs once.
C7_GenFastRangeShape ==
    (Scheduled /\ rank_name = "ltr_rank" /\ n_activities >= TEST_DATA_SIZE) =>
        LET end == n_activities - TEST_DATA_SIZE
            r == total_range
        IN /\ r # <<>>
           /\ r[1] = 0
           /\ \A k \in 1..(Len(r) - 1) : r[k] < r[k + 1]
           /\ \A k \in 2..(Len(r) - 1) : r[k] = (r[k - 1] * 21) \div 20 + 1
           /\ r[Len(r)] = end
           /\ Cardinality({k \in 1..Len(r) : r[k] = end}) = 1

\* C8: whatever the order in which the tasks completed, the returned
\* mapping's keys are exactly the successfully processed split indices, in
\* ascending order, each once, each with the metrics a successful task for
\* that index produced.
C8_ResultSortedWhateverCompletionOrder ==
    epc = "returned" =>
        LET d == context_to_ndcgs
        IN /\ Keys(d) = SucceededIndices
           /\ \A k \in 1..(Len(d) - 1) : d[k][1] < d[k + 1][1]
           /\ \A k \in 1..Len(d) :
                \E t \in 1..Len(total_range) :
                    /\ results[t].kind = "ok"
                    /\ results[t].i = d[k][1]
                    /\ total_range[t] = d[k][1]
                    /\ results[t].ndcgs = d[k][2]

\* Returned after a task with a larger index completed before one with a
\* smaller index, with two successes and a failure among the tasks.
C8_Witness ==
    /\ epc = "returned"
    /\ Len(context_to_ndcgs) >= 2
    /\ FailedIndices # {}
    /\ \E a, b \in 1..Len(completed) :
          /\ a < b
          /\ total_range[completed[a]] > total_range[completed[b]]
          /\ results[completed[a]].kind = "ok"
          /\ results[completed[b]].kind = "ok"
          /\ results[completed[a]].ndcgs # results[completed[b]].ndcgs

(***************************************************************************)
(* UserActivity, UserActivityTorrent, TorrentInfo, fetch_torrent_infos and *)
(* the ranking_func decorator (common.py)                                  *)
(***************************************************************************)
\* Longest candidate list of an activity.
MaxResults == 2

\* The caller's log holds up to two activities (addresses 1 and 2): every
\* operation below treats the activities of a list one by one.
LogAddrs == {1, 2}

Infohashes == {"h1", "h2"}

\* The (seeders, leechers) counters the candidates are built with.
PeerCounts == {[seeders |-> 1, leechers |-> 2]}

\* One entry of data['results'].
ResultData ==
    {[infohash |-> h, seeders |-> c.seeders, leechers |-> c.leechers] :
        h \in Infohashes, c \in PeerCounts}

\* The data dicts UserActivity.__init__ accepts: at least one result, since
\* results[chosen_index] must exist.
ActivityData ==
    UNION {{[query |-> "q", results |-> rs, chosen_index |-> c] :
                rs \in [1..m -> ResultData], c \in 0..(m - 1)} :
           m \in 1..MaxResults}

\* TorrentInfo.__init__(**kwargs) with every key given.
TorrentInfo_init(kwargs) ==
    [py |-> "TorrentInfo", title |-> kwargs.title, tags |-> kwargs.tags,
     timestamp |-> kwargs.timestamp, size |-> kwargs.size]

\* UserActivityTorrent.__init__(data): torrent_info starts as None, whatever
\* else data holds.
UserActivityTorrent_init(data) ==
    [py |-> "UserActivityTorrent", infohash |-> data.infohash,
     seeders |-> data.seeders, leechers |-> data.leechers,
     torrent_info |-> None]

\* UserActivityTorrent.__getstate__: the attribute dict, a TorrentInfo
\* replaced by a plain dict of its fields.
UserActivityTorrent_getstate(t) ==
    [py |-> "dict", infohash |-> t.infohash, seeders |-> t.seeders,
     leechers |-> t.leechers,
     torrent_info |->
        IF t.torrent_info.py = "TorrentInfo"
        THEN [py |-> "dict", title |-> t.torrent_info.title,
              tags |-> t.torrent_info.tags,
              timestamp |-> t.torrent_info.timestamp,
              size |-> t.torrent_info.size]
        ELSE t.torrent_info]

\* UserActivityTorrent.__setstate__: a dict torrent_info becomes a TorrentInfo.
UserActivityTorrent_setstate(state) ==
    [py |-> "UserActivityTorrent", infohash |-> state.infohash,
     seeders |-> state.seeders, leechers |-> state.leechers,
     torrent_info |->
        IF state.torrent_info.py = "dict"
        THEN TorrentInfo_init(state.torrent_info)
        ELSE state.torrent_info]

\* A UserActivityTorrent after deepcopy or pickle dump/load: a new object
\* rebuilt by __setstate__ from the copied __getstate__ dict.
UserActivityTorrent_copy(t) ==
    UserActivityTorrent_setstate(UserActivityTorrent_getstate(t))

\* chosen_result is a reference: to the idx-th object of the own results
\* list, or to a UserActivityTorrent that is not in that list.
InResults(idx) == [ref |-> "results", idx |-> idx]
Detached(obj) == [ref |-> "object", obj |-> obj]

Deref(ua, r) == IF r.ref = "results" THEN ua.results[r.idx] ELSE r.obj

\* UserActivity.__init__(data). chosen0 is a history field: the infohash of
\* the candidate chosen at construction.
UserActivity_init(data) ==
    [query |-> data.query,
     results |-> [k \in 1..Len(data.results) |->
                    UserActivityTorrent_init(data.results[k])],
     chosen_result |-> InResults(data.chosen_index + 1),
     chosen0 |-> data.results[data.chosen_index + 1].infohash]

\* UserActivity.__getstate__ followed by the copy deepcopy/pickle makes of
\* the state: results are the per-candidate state dicts, chosen_result is a
\* copy of the chosen UserActivityTorrent object.
UserActivity_getstate(ua) ==
    [query |-> ua.query,
     results |-> [k \in 1..Len(ua.results) |->
                    UserActivityTorrent_getstate(ua.results[k])],
     chosen_result |-> UserActivityTorrent_copy(Deref(ua, ua.chosen_result)),
     chosen0 |-> ua.chosen0]

\* The results list __setstate__ leaves in place: dicts are turned into
\* candidates by the constructor.
setstate_results(state) ==
    IF state.results # <<>> /\ state.results[1].py # "UserActivityTorrent"
    THEN [k \in 1..Len(state.results) |->
            UserActivityTorrent_init(state.results[k])]
    ELSE state.results

\* Variant of UserActivity_setstate: chosen_result is not re-linked and stays
\* the unpickled copy.
UserActivity_setstate_nolink(state) ==
    [query |-> state.query,
     results |-> setstate_results(state),
     chosen_result |-> Detached(state.chosen_result),
     chosen0 |-> state.chosen0]

\* UserActivity.__setstate__: chosen_result becomes the first candidate of
\* the rebuilt list with the chosen infohash (next(...) raises StopIteration
\* when there is none, which leaves the unpickled copy in place here).
UserActivity_setstate(state) ==
    LET rs == setstate_results(state)
        chosen_hash == state.chosen_result.infohash
        hits == {k \in 1..Len(rs) : rs[k].infohash = chosen_hash}
    IN [query |-> state.query,
        results |-> rs,
        chosen_result |->
            IF hits # {}
            THEN InResults(CHOOSE k \in hits : \A j \in hits : k <= j)
            ELSE Detached(state.chosen_result),
        chosen0 |-> state.chosen0]

\* deepcopy(ua), or pickle.loads(pickle.dumps(ua)).
UserActivity_copy(ua) == UserActivity_setstate(UserActivity_getstate(ua))

\* Variant of deepcopy_list: no copy is made, the caller's objects are used.
deepcopy_alias(h, addrs) == [heap |-> h, addrs |-> addrs]

\* deepcopy(list of UserActivity): new objects, allocated after the
\* existing ones; the result is the new heap and the copies' addresses.
deepcopy_list(h, addrs) ==
    [heap |-> h \o [k \in 1..Len(addrs) |-> UserActivity_copy(h[addrs[k]])],
     addrs |-> [k \in 1..Len(addrs) |-> Len(h) + k]]

Perms(m) == {p \in [1..m -> 1..m] : \A a, b \in 1..m : a # b => p[a] # p[b]}

AllPerms == UNION {Perms(m) : m \in 1..MaxResults}

\* np.random.shuffle(ua.results) drawing permutation p: the list is permuted
\* in place, the objects (and so the chosen reference) move with it.
shuffle_results(ua, p) ==
    [ua EXCEPT
        !.results = [k \in 1..Len(ua.results) |-> ua.results[p[k]]],
        !.chosen_result =
            IF ua.chosen_result.ref = "results"
            THEN InResults(CHOOSE k \in 1..Len(ua.results) :
                              p[k] = ua.chosen_result.idx)
            ELSE ua.chosen_result]

\* for ua in lst: np.random.shuffle(ua.results): the heaps the loop may
\* leave, one permutation drawn per element, applied in list order.
RECURSIVE shuffle_each(_, _)
shuffle_each(h, addrs) ==
    IF addrs = <<>> THEN {h}
    ELSE LET a == addrs[1]
         IN UNION {shuffle_each([h EXCEPT ![a] = shuffle_results(h[a], p)],
                                SubSeq(addrs, 2, Len(addrs))) :
                   p \in Perms(Len(h[a].results))}

\* The infohashes the metadata database has a ChannelNode row for.
ChannelNodeRows == {"h1"}

\* The ChannelNode row of an infohash, as the TorrentInfo built from it.
ChannelNode(h) ==
    [py |-> "TorrentInfo", title |-> IF h = "h1" THEN "t1" ELSE "t2",
     tags |-> <<"tag">>, timestamp |-> 1, size |-> 1]

\* The update loop of fetch_torrent_infos for one UserActivity.
fetch_update(ua) ==
    LET found == ChannelNodeRows
        chosen_hash == Deref(ua, ua.chosen_result).infohash
        hits == {k \in 1..Len(ua.results) :
                    /\ ua.results[k].infohash \in found
                    /\ ua.results[k].infohash = chosen_hash}
    IN [ua EXCEPT
          !.results = [k \in 1..Len(ua.results) |->
                         IF ua.results[k].infohash \in found
                         THEN [ua.results[k] EXCEPT
                                 !.torrent_info =
                                    ChannelNode(ua.results[k].infohash)]
                         ELSE ua.results[k]],
          !.chosen_result =
              IF hits # {}
              THEN InResults(CHOOSE k \in hits : \A j \in hits : j <= k)
              ELSE ua.chosen_result]

InitUA ==
    /\ IdleSplit
    /\ IdleEval
    /\ heap = <<>>
    /\ nlog = 0
    /\ wpc = "idle"
    /\ call = NoCall
    /\ clicklogs = <<>>
    /\ activities = <<>>
    /\ snapshot = <<>>

\* Outside func the wrapper's copies are gone and no call is in progress.
BackToIdle ==
    /\ wpc' = "idle"
    /\ call' = NoCall
    /\ clicklogs' = <<>>
    /\ activities' = <<>>
    /\ snapshot' = <<>>

\* UserActivity(data), appended to the log.
NewUserActivity(data) ==
    /\ wpc # "in_func"
    /\ nlog + 1 \in LogAddrs
    /\ heap' = Append(heap, UserActivity_init(data))
    /\ nlog' = nlog + 1
    /\ BackToIdle
    /\ UNCHANGED <<splitVars, evalVars>>

\* fetch_torrent_infos(user_activities).
FetchTorrentInfos ==
    /\ wpc # "in_func"
    /\ nlog > 0
    /\ heap' = [a \in 1..nlog |-> fetch_update(heap[a])]
    /\ BackToIdle
    /\ UNCHANGED <<nlog, splitVars, evalVars>>

\* The log is pickled and loaded again (pickle.dump, pickle.load): every
\* activity is replaced by its reconstruction.
SerializationRoundTrip ==
    /\ wpc # "in_func"
    /\ nlog > 0
    /\ heap' = [a \in 1..nlog |-> UserActivity_copy(heap[a])]
    /\ BackToIdle
    /\ UNCHANGED <<nlog, splitVars, evalVars>>

\* np.random.shuffle(ua.results) on the a-th activity of the log.
ShuffleResults(a, p) ==
    /\ wpc # "in_func"
    /\ a \in 1..nlog
    /\ DOMAIN p = 1..Len(heap[a].results)
    /\ heap' = [heap EXCEPT ![a] = shuffle_results(heap[a], p)]
    /\ BackToIdle
    /\ UNCHANGED <<nlog, splitVars, evalVars>>

\* wrapper(arg1, arg2) up to the call func(clicklogs, activities). The
\* calls tried: wrapper(log[:i], log[i:]) for every i, and wrapper(log[:i])
\* with arg2 omitted for i <= 1.
WrapperCall(i, given, shuffle) ==
    /\ wpc # "in_func"
    /\ i \in 0..nlog
    /\ given \/ i <= 1
    /\ LET arg1 == [k \in 1..i |-> k]
           arg2 == [k \in 1..(nlog - i) |-> i + k]
           c1 == deepcopy_list(heap, arg1)
           c2 == deepcopy_list(c1.heap, IF given THEN arg2 ELSE arg1)
       IN /\ call' = [active |-> TRUE, arg1 |-> arg1, given |-> given,
                      arg2 |-> IF given THEN arg2 ELSE <<>>,
                      shuffle |-> shuffle]
          /\ clicklogs' = c1.addrs
          /\ activities' = c2.addrs
          /\ IF shuffle
             THEN \E h1 \in shuffle_each(c2.heap, c1.addrs) :
                     heap' \in shuffle_each(h1, c2.addrs)
             ELSE heap' = c2.heap
    /\ snapshot' = SubSeq(heap, 1, nlog)
    /\ wpc' = "in_func"
    /\ UNCHANGED <<nlog, splitVars, evalVars>>

\* func returns and the wrapper returns its result; the lists handed to
\* func are the wrapper's own and are released.
FuncReturn ==
    /\ wpc = "in_func"
    /\ heap' = SubSeq(heap, 1, nlog)
    /\ wpc' = "returned"
    /\ call' = NoCall
    /\ clicklogs' = <<>>
    /\ activities' = <<>>
    /\ UNCHANGED <<nlog, snapshot, splitVars, evalVars>>

NextUA ==
    \/ \E data \in ActivityData : NewUserActivity(data)
    \/ FetchTorrentInfos
    \/ SerializationRoundTrip
    \/ \E a \in LogAddrs : \E p \in AllPerms : ShuffleResults(a, p)
    \/ \E i \in {0} \cup LogAddrs : \E given, shuffle \in BOOLEAN :
          WrapperCall(i, given, shuffle)
    \/ FuncReturn

SpecUA == InitUA /\ [][NextUA]_vars

(***************************************************************************)
(* Claims about UserActivity and the ranking_func wrapper                  *)
(***************************************************************************)
\* The infohashes of an activity's candidates, in list order.
HashList(ua) == [k \in 1..Len(ua.results) |-> ua.results[k].infohash]

\* The same values with the same multiplicities.
SameBag(s1, s2) ==
    /\ Len(s1) = Len(s2)
    /\ \A x \in Range(s1) \cup Range(s2) :
          Cardinality({k \in 1..Len(s1) : s1[k] = x})
            = Cardinality({k \in 1..Len(s2) : s2[k] = x})

\* The caller's list whose copies func receives as activities.
ActivitiesSource == IF call.given THEN call.arg2 ELSE call.arg1

\* C5: while func runs and after the wrapper has returned, the caller's
\* activities are what they were at the call, candidate order included; and
\* each activity handed to func holds the infohashes of the caller's
\* corresponding activity, permuted.
C5_WrapperLeavesCallerUnchanged ==
    /\ wpc \in {"in_func", "returned"} => SubSeq(heap, 1, nlog) = snapshot
    /\ wpc = "in_func" =>
          /\ Len(clicklogs) = Len(call.arg1)
          /\ Len(activities) = Len(ActivitiesSource)
          /\ \A k \in 1..Len(clicklogs) :
                SameBag(HashList(heap[clicklogs[k]]),
                        HashList(snapshot[call.arg1[k]]))
          /\ \A k \in 1..Len(activities) :
                SameBag(HashList(heap[activities[k]]),
                        HashList(snapshot[ActivitiesSource[k]]))

\* func is running on shuffled copies: an activity of each list is ordered
\* differently from the caller's.
C5_Witness ==
    /\ wpc = "in_func"
    /\ call.shuffle
    /\ call.given
    /\ \E k \in 1..Len(clicklogs) :
          HashList(heap[clicklogs[k]]) # HashList(heap[call.arg1[k]])
    /\ \E k \in 1..Len(activities) :
          HashList(heap[activities[k]]) # HashList(heap[call.arg2[k]])

\* C6: for every UserActivity alive (the caller's and the wrapper's copies),
\* chosen_result is an element of its own results list and carries the
\* infohash chosen at construction.
C6_ChosenResultInResults ==
    \A a \in 1..Len(heap) :
        /\ heap[a].chosen_result.ref = "results"
        /\ heap[a].chosen_result.idx \in 1..Len(heap[a].results)
        /\ heap[a].results[heap[a].chosen_result.idx].infohash = heap[a].chosen0

\* A copy made by the wrapper from an enriched activity whose candidates
\* share an infohash, the chosen one having moved in the shuffle.
C6_Witness ==
    /\ wpc = "in_func"
    /\ \E k \in 1..Len(clicklogs) :
          LET o == heap[call.arg1[k]]
              c == heap[clicklogs[k]]
          IN /\ Len(o.results) >= 2
             /\ Deref(o, o.chosen_result).torrent_info # None
             /\ o.chosen_result.idx # 1
             /\ o.results[1].infohash = o.chosen0
             /\ c.chosen_result.idx # 1

\* The candidate's fields C10 speaks of.
CandidateValue(t) ==
    [infohash |-> t.infohash, seeders |-> t.seeders, leechers |-> t.leechers,
     torrent_info |-> t.torrent_info]

CandidateValues(ua) ==
    [k \in 1..Len(ua.results) |-> CandidateValue(ua.results[k])]

\* C10: every candidate of a copy the wrapper made has the infohash, the
\* seeder and leecher counts and the torrent_info of the corresponding
\* candidate of the original.
C10_CopyPreservesCandidates ==
    wpc = "in_func" =>
        /\ \A k \in 1..Len(clicklogs) :
              SameBag(CandidateValues(heap[clicklogs[k]]),
                      CandidateValues(snapshot[call.arg1[k]]))
        /\ \A k \in 1..Len(activities) :
              SameBag(CandidateValues(heap[activities[k]]),
                      CandidateValues(snapshot[ActivitiesSource[k]]))

====
